---- MODULE Spec2Model ----
(***************************************************************************)
(* A model of src/common/Action.ts: the abstract Action class whose run()  *)
(* routes one GitHub event to a handler hook, reports a caught error and   *)
(* emits usage metrics.  One behaviour is one Action instance: Init is the *)
(* state right after the constructor, the actions are the steps of run()   *)
(* between its await points, plus the settling of the username promise.    *)
(***************************************************************************)
EXTENDS Integers, Sequences, FiniteSets, TLC

VARIABLES
    ctx,            \* @actions/github context: event name, payload, repo (immutable)
    errorLoggingIssue, \* utils.errorLoggingIssue: a record, or NoIssue when not configured
    aiHandle,       \* telemetry.aiHandle: TRUE when a telemetry sink is configured
    overrides,      \* the hooks the concrete subclass overrides
    readonlyInput,  \* what getInput('readonly') yields, already coerced by !!
    identity,       \* the getAuthenticated() request: "pending", "fulfilled" or "rejected"
    username,       \* this.username: Pending, or the value the promise settled to
    whoAmI,         \* number of users.getAuthenticated() requests issued
    userReads,      \* the values every `await this.username` has yielded, in order
    pc,             \* position inside run()
    inputsRead,     \* whether run() has called getRequiredInput and getInput
    caught,         \* the value bound to e in run()'s catch clause, or NoError
    clients,        \* the OctoKitIssue / OctoKit objects constructed, in order
    hookCalls,      \* the handler hooks invoked, in order, with their arguments
    log,            \* the lines written through safeLog, in order
    reports,        \* the calls made to logErrorToIssue, in order
    exceptions,     \* the errors handed to aiHandle.trackException
    failed,         \* the messages handed to setFailed
    samples,        \* the metric samples handed to aiHandle.trackMetric
    usage,          \* the result of getRateLimit, or NoUsage before it is fetched
    result,         \* how run() ended: "running", "refused", "returned" or "rejected"
    escaped         \* what run()'s promise rejected with: "none", or the failed call

vars == <<ctx, errorLoggingIssue, aiHandle, overrides, readonlyInput, identity,
          username, whoAmI, userReads, pc, inputsRead, caught, clients, hookCalls, log, reports,
          exceptions, failed, samples, usage, result, escaped>>

----------------------------------------------------------------------------
(* Bounds and the values the environment can supply *)

\* issue and pull-request numbers range over 1..MaxIssue; 0 stands for "absent"
MaxIssue == 2

Owners == {"o", "x"}
Repos == {"r", "s"}

RecognizedActions ==
    {"opened", "reopened", "closed", "labeled", "assigned", "unassigned",
     "edited", "milestoned"}

\* sub-actions of the 'issues' event the switch has no case for
OtherActions == {"deleted", "pinned"}

IssueHooks ==
    {"onEdited", "onLabeled", "onAssigned", "onUnassigned", "onOpened",
     "onReopened", "onClosed", "onMilestoned", "onCommented"}

Hooks == IssueHooks \cup {"onTriggered"}

\* the subclasses considered: one overriding nothing, one overriding some
\* hooks, one overriding all ten
Subclasses == { {}, {"onLabeled", "onCommented", "onTriggered", "onClosed"}, Hooks }

NoIssue == [owner |-> "", repo |-> "", issue |-> 0]
NoError == [kind |-> "none", message |-> "", stack |-> "", str |-> ""]
NoUsage == [core |-> -1, graphql |-> -1, search |-> -1]
Pending == "<pending>"

\* the class's abstract id, fixed by the subclass
id == "TestAction"

\* the display name the "who am I" endpoint answers with
DisplayName == "octocat"

----------------------------------------------------------------------------
(* JavaScript values *)

\* the value `undefined`, as a property of a thrown value that lacks it
Undefined == "<undefined>"

\* what a template literal `${v}` or '' + v makes of a string-or-undefined
TemplateStr(v) == IF v = Undefined THEN "undefined" ELSE v

\* JavaScript truthiness of a string-or-undefined (the operand of ||)
Truthy(v) == v # Undefined /\ v # ""

\* Error(m): an Error object; its stack starts with its string form
Err(m) ==
    [kind |-> "Error", message |-> m,
     stack |-> "Error: " \o m \o "\n    at Action.run", str |-> "Error: " \o m]

\* what an overriding hook can reject with: an Error, a plain object that
\* carries a message but no stack, a bare string, and null
ThrowValues ==
    { Err("handler failed"),
      [kind |-> "object", message |-> "boom", stack |-> Undefined,
       str |-> "[object Object]"],
      [kind |-> "string", message |-> Undefined, stack |-> Undefined,
       str |-> "oops"],
      [kind |-> "null", message |-> Undefined, stack |-> Undefined,
       str |-> "null"] }

\* decimal digits of a natural number, as '' + n produces them
Digit(d) ==
    CASE d = 0 -> "0" [] d = 1 -> "1" [] d = 2 -> "2" [] d = 3 -> "3"
      [] d = 4 -> "4" [] d = 5 -> "5" [] d = 6 -> "6" [] d = 7 -> "7"
      [] d = 8 -> "8" [] d = 9 -> "9"

RECURSIVE NumStr(_)
NumStr(n) == IF n < 10 THEN Digit(n) ELSE NumStr(n \div 10) \o Digit(n % 10)

----------------------------------------------------------------------------
(* The event context *)

\* one event: payloadIssue is context.payload.issue?.number and number is
\* context.issue.number (the issue's or else the pull request's number);
\* 0 stands for an absent number
Event(name, action, payloadIssue, number) ==
    [eventName |-> name, action |-> action,
     payloadIssue |-> payloadIssue, number |-> number,
     label |-> IF action = "labeled" THEN "bug" ELSE Undefined,
     assignee |-> IF action \in {"assigned", "unassigned"} THEN "alice" ELSE Undefined,
     comment |-> IF name = "issue_comment" THEN "hello" ELSE Undefined,
     actor |-> "bob"]

\* the events a workflow delivers: issue events and issue comments carry
\* payload.issue, pull-request events carry a number but no payload.issue,
\* scheduled and dispatched runs carry no number at all
Events ==
    { Event("issues", a, n, n) : a \in RecognizedActions \cup OtherActions,
                                 n \in 1..MaxIssue }
    \cup { Event("issue_comment", "created", n, n) : n \in 1..MaxIssue }
    \cup { Event("pull_request", "opened", 0, n) : n \in 1..MaxIssue }
    \cup { Event("schedule", Undefined, 0, 0),
           Event("repository_dispatch", Undefined, 0, 0) }

Contexts ==
    { [event |-> e, owner |-> o, repo |-> r] : e \in Events, o \in Owners, r \in Repos }

\* the error-logging issue, when one is configured
ErrorLoggingIssues == { NoIssue, [owner |-> "o", repo |-> "r", issue |-> 1] }

\* issues and pull requests of one repository share one number sequence, so
\* no pull request carries the number of that repository's error-logging issue
Consistent(c, eli) ==
    ~ /\ eli # NoIssue
      /\ c.event.payloadIssue = 0
      /\ c.owner = eli.owner /\ c.repo = eli.repo /\ c.event.number = eli.issue

\* the rate-limit snapshots getRateLimit can answer with
UsageSnapshots == { [core |-> 10, graphql |-> 20, search |-> 30] }

----------------------------------------------------------------------------
(* The pure parts of Action *)

\* a self-protection test that forgets to compare the owner
IsErrorLoggingIssue_NoOwner(c, eli) ==
    /\ eli # NoIssue
    /\ c.repo = eli.repo
    /\ c.event.payloadIssue = eli.issue

\* run(): the self-protection test
IsErrorLoggingIssue(c, eli) ==
    /\ eli # NoIssue
    /\ c.repo = eli.repo
    /\ c.owner = eli.owner
    /\ c.event.payloadIssue = eli.issue

\* the line run() logs when it refuses, as its words
RefusalMessage ==
    <<"refusing", "to", "run", "on", "error", "logging", "issue", "to",
      "prevent", "cascading", "errors">>

\* new OctoKitIssue(token, context.repo, { number: issue }, { readonly })
OctoKitIssue(c, ro) ==
    [kind |-> "OctoKitIssue", owner |-> c.owner, repo |-> c.repo,
     number |-> c.event.number, readonly |-> ro]

\* new OctoKit(token, context.repo, { readonly })
OctoKit(c, ro) ==
    [kind |-> "OctoKit", owner |-> c.owner, repo |-> c.repo,
     number |-> 0, readonly |-> ro]

\* a run() whose two client constructions are exchanged
ScopedClient_Exchanged(c, ro) ==
    IF c.event.number # 0 THEN OctoKit(c, ro) ELSE OctoKitIssue(c, ro)

\* a run() that constructs the issue-scoped client whatever the event
ScopedClient_AlwaysIssue(c, ro) == OctoKitIssue(c, ro)

\* the client run() constructs: issue-scoped when context.issue.number is truthy
ScopedClient(c, ro) ==
    IF c.event.number # 0 THEN OctoKitIssue(c, ro) ELSE OctoKit(c, ro)

Call(hook, args) == [kind |-> "call", hook |-> hook, args |-> args, error |-> NoError]
Throw(e) == [kind |-> "throw", hook |-> "", args |-> <<>>, error |-> e]
NoCall == [kind |-> "none", hook |-> "", args |-> <<>>, error |-> NoError]

\* a switch whose 'assigned' and 'unassigned' cases are exchanged
IssuesSwitch_AssignedExchanged(ev) ==
    CASE ev.action = "opened" -> Call("onOpened", <<>>)
      [] ev.action = "reopened" -> Call("onReopened", <<>>)
      [] ev.action = "closed" -> Call("onClosed", <<>>)
      [] ev.action = "labeled" -> Call("onLabeled", <<ev.label>>)
      [] ev.action = "assigned" -> Call("onUnassigned", <<ev.assignee>>)
      [] ev.action = "unassigned" -> Call("onAssigned", <<ev.assignee>>)
      [] ev.action = "edited" -> Call("onEdited", <<>>)
      [] ev.action = "milestoned" -> Call("onMilestoned", <<>>)
      [] OTHER -> Throw(Err("Unexpected action: " \o TemplateStr(ev.action)))

\* a switch without default case: an unknown sub-action falls through
IssuesSwitch_NoDefault(ev) ==
    CASE ev.action = "opened" -> Call("onOpened", <<>>)
      [] ev.action = "reopened" -> Call("onReopened", <<>>)
      [] ev.action = "closed" -> Call("onClosed", <<>>)
      [] ev.action = "labeled" -> Call("onLabeled", <<ev.label>>)
      [] ev.action = "assigned" -> Call("onAssigned", <<ev.assignee>>)
      [] ev.action = "unassigned" -> Call("onUnassigned", <<ev.assignee>>)
      [] ev.action = "edited" -> Call("onEdited", <<>>)
      [] ev.action = "milestoned" -> Call("onMilestoned", <<>>)
      [] OTHER -> NoCall

\* the switch over context.payload.action of an 'issues' event
IssuesSwitch(ev) ==
    CASE ev.action = "opened" -> Call("onOpened", <<>>)
      [] ev.action = "reopened" -> Call("onReopened", <<>>)
      [] ev.action = "closed" -> Call("onClosed", <<>>)
      [] ev.action = "labeled" -> Call("onLabeled", <<ev.label>>)
      [] ev.action = "assigned" -> Call("onAssigned", <<ev.assignee>>)
      [] ev.action = "unassigned" -> Call("onUnassigned", <<ev.assignee>>)
      [] ev.action = "edited" -> Call("onEdited", <<>>)
      [] ev.action = "milestoned" -> Call("onMilestoned", <<>>)
      [] OTHER -> Throw(Err("Unexpected action: " \o TemplateStr(ev.action)))

\* a routing that treats an event kind it does not know as an error
Dispatch_OtherEventThrows(ev) ==
    IF ev.number # 0
    THEN IF ev.eventName = "issue_comment"
         THEN Call("onCommented", <<ev.comment, ev.actor>>)
         ELSE IF ev.eventName = "issues" THEN IssuesSwitch(ev)
         ELSE Throw(Err("Unexpected event: " \o ev.eventName))
    ELSE Call("onTriggered", <<>>)

\* what run() does with the event once the client exists: the hook it calls
\* and the arguments besides the client, the error it throws, or nothing
Dispatch(ev) ==
    IF ev.number # 0
    THEN IF ev.eventName = "issue_comment"
         THEN Call("onCommented", <<ev.comment, ev.actor>>)
         ELSE IF ev.eventName = "issues" THEN IssuesSwitch(ev) ELSE NoCall
    ELSE Call("onTriggered", <<>>)

\* trackMetric: the properties attached to every sample
MetricProperties(c, user) ==
    [repo |-> c.owner \o "/" \o c.repo,
     issue |-> IF c.event.number = 0 THEN "undefined" ELSE NumStr(c.event.number),
     id |-> id,
     user |-> user]

\* error(): the three fields of the rendered report
Rendered(e, user) ==
    [Message |-> TemplateStr(e.message) \o "\n" \o TemplateStr(e.stack),
     Actor |-> user,
     ID |-> id]

\* error(): `error.message` throws a TypeError when error is null
MessageAccessThrows(e) == e.kind = "null"

\* a fallback that prefers the message to the stack
FallbackText_MessageFirst(e) ==
    IF Truthy(e.message) THEN e.message
    ELSE IF Truthy(e.stack) THEN e.stack
    ELSE e.str

\* run(): e?.stack || e?.message || String(e)
FallbackText(e) ==
    IF Truthy(e.stack) THEN e.stack
    ELSE IF Truthy(e.message) THEN e.message
    ELSE e.str

\* an error() that forgets the call of setFailed
error_NoSetFailed(e, user, sink, delivered, tracked) ==
    IF MessageAccessThrows(e)
    THEN [reports |-> <<>>, exceptions |-> <<>>, failed |-> <<>>, threw |-> TRUE]
    ELSE LET report == [text |-> Rendered(e, user), automated |-> TRUE,
                        delivered |-> delivered]
         IN  [reports |-> <<report>>,
              exceptions |-> IF sink /\ delivered /\ tracked THEN <<e>> ELSE <<>>,
              failed |-> <<>>,
              threw |-> ~delivered \/ (sink /\ ~tracked)]

\* an error() that calls setFailed before it awaits the delivery
error_SetFailedFirst(e, user, sink, delivered, tracked) ==
    IF MessageAccessThrows(e)
    THEN [reports |-> <<>>, exceptions |-> <<>>, failed |-> <<>>, threw |-> TRUE]
    ELSE LET report == [text |-> Rendered(e, user), automated |-> TRUE,
                        delivered |-> delivered]
         IN  [reports |-> <<report>>,
              exceptions |-> IF sink /\ delivered /\ tracked THEN <<e>> ELSE <<>>,
              failed |-> <<e.message>>,
              threw |-> ~delivered \/ (sink /\ ~tracked)]

\* error(): what one call does, given the value the username promise yields,
\* whether a telemetry sink exists, and whether logErrorToIssue and
\* aiHandle.trackException succeed.  threw tells whether error() rejected.
error(e, user, sink, delivered, tracked) ==
    IF MessageAccessThrows(e)
    THEN [reports |-> <<>>, exceptions |-> <<>>, failed |-> <<>>, threw |-> TRUE]
    ELSE LET report == [text |-> Rendered(e, user), automated |-> TRUE,
                        delivered |-> delivered]
         IN  IF ~delivered
             THEN [reports |-> <<report>>, exceptions |-> <<>>, failed |-> <<>>,
                   threw |-> TRUE]
             ELSE IF sink /\ ~tracked
             THEN [reports |-> <<report>>, exceptions |-> <<>>, failed |-> <<>>,
                   threw |-> TRUE]
             ELSE [reports |-> <<report>>,
                   exceptions |-> IF sink THEN <<e>> ELSE <<>>,
                   failed |-> <<e.message>>, threw |-> FALSE]

----------------------------------------------------------------------------
(* The state after the constructor *)

Init ==
    /\ ctx \in Contexts
    /\ errorLoggingIssue \in ErrorLoggingIssues
    /\ Consistent(ctx, errorLoggingIssue)
    /\ aiHandle \in BOOLEAN
    /\ overrides \in Subclasses
    /\ readonlyInput \in BOOLEAN
    /\ identity = "pending"
    /\ username = Pending
    /\ whoAmI = 1
    /\ userReads = <<>>
    /\ pc = "start"
    /\ inputsRead = FALSE
    /\ caught = NoError
    /\ clients = <<>>
    /\ hookCalls = <<>>
    /\ log = <<>>
    /\ reports = <<>>
    /\ exceptions = <<>>
    /\ failed = <<>>
    /\ samples = <<>>
    /\ usage = NoUsage
    /\ result = "running"
    /\ escaped = "none"

environment == <<ctx, errorLoggingIssue, aiHandle, overrides, readonlyInput>>

----------------------------------------------------------------------------
(* The username promise *)

\* a rejection handler that yields nothing in place of 'unknown'
SettledUsername_NoFallback(outcome) ==
    IF outcome = "fulfilled" THEN DisplayName ELSE Undefined

\* .then(v => v.data.name, () => 'unknown'): the value this.username takes
SettledUsername(outcome) ==
    IF outcome = "fulfilled" THEN DisplayName ELSE "unknown"

\* getAuthenticated() is answered or fails, and this.username settles
ResolveIdentity ==
    /\ identity = "pending"
    /\ identity' \in {"fulfilled", "rejected"}
    /\ username' = SettledUsername(identity')
    /\ UNCHANGED <<environment, inputsRead, whoAmI, userReads, pc, caught, clients,
                   hookCalls, log, reports, exceptions, failed, samples, usage,
                   result, escaped>>

\* a username getter that asks the "who am I" endpoint at every read
AwaitUsername_Refetch ==
    /\ whoAmI' = whoAmI + 1
    /\ username' \in {DisplayName, "unknown"}
    /\ userReads' = Append(userReads, username')

\* `await this.username`: waits for the promise and yields its value
AwaitUsername ==
    /\ username # Pending
    /\ userReads' = Append(userReads, username)
    /\ UNCHANGED <<username, whoAmI>>

----------------------------------------------------------------------------
(* run() *)

\* a run() whose self-protection test sits after the reading of the inputs
Refuse_AfterInputs ==
    /\ pc = "start"
    /\ IsErrorLoggingIssue(ctx, errorLoggingIssue)
    /\ inputsRead' = TRUE
    /\ log' = Append(log, RefusalMessage)
    /\ pc' = "done"
    /\ result' = "refused"
    /\ UNCHANGED <<environment, identity, username, whoAmI, userReads, caught,
                   clients, hookCalls, reports, exceptions, failed, samples, usage,
                   escaped>>

\* the event is on the error-logging issue: log and return
Refuse ==
    /\ pc = "start"
    /\ IsErrorLoggingIssue(ctx, errorLoggingIssue)
    /\ log' = Append(log, RefusalMessage)
    /\ pc' = "done"
    /\ result' = "refused"
    /\ UNCHANGED <<environment, identity, inputsRead, username, whoAmI, userReads, caught, clients,
                   hookCalls, reports, exceptions, failed, samples, usage, escaped>>

\* a run() that reads its inputs before the self-protection test
Proceed_ReadsInputsFirst ==
    /\ pc = "start"
    /\ ~IsErrorLoggingIssue(ctx, errorLoggingIssue)
    /\ inputsRead' = TRUE
    /\ pc' = "config"
    /\ UNCHANGED <<environment, identity, username, whoAmI, userReads, caught,
                   clients, hookCalls, log, reports, exceptions, failed, samples,
                   usage, result, escaped>>

\* the self-protection test fails: enter the try block
Proceed ==
    /\ pc = "start"
    /\ ~IsErrorLoggingIssue(ctx, errorLoggingIssue)
    /\ pc' = "config"
    /\ UNCHANGED <<environment, identity, inputsRead, username, whoAmI, userReads, caught, clients,
                   hookCalls, log, reports, exceptions, failed, samples, usage,
                   result, escaped>>

\* a run() that reads its inputs before the try block: a throw escapes
ReadInputs_OutsideTry ==
    /\ pc = "config"
    /\ inputsRead' = TRUE
    /\ \/ /\ pc' = "route"
          /\ UNCHANGED <<result, escaped>>
       \/ /\ pc' = "done"
          /\ result' = "rejected"
          /\ escaped' = "getRequiredInput"
    /\ UNCHANGED <<environment, identity, username, whoAmI, userReads, caught,
                   clients, hookCalls, log, reports, exceptions, failed, samples,
                   usage>>

\* getRequiredInput('token') and getInput('readonly'); the first may throw
ReadInputs ==
    /\ pc = "config"
    /\ inputsRead' = TRUE
    /\ \/ /\ pc' = "route"
          /\ UNCHANGED caught
       \/ /\ caught' = Err("Input required and not supplied: token")
          /\ pc' = "catch"
    /\ UNCHANGED <<environment, identity, username, whoAmI, userReads, clients, hookCalls,
                   log, reports, exceptions, failed, samples, usage, result, escaped>>

\* construct the scoped client (which may throw), then call the hook the
\* event selects, throw 'Unexpected action', or fall through
Route ==
    /\ pc = "route"
    /\ \/ /\ caught' = Err("client construction failed")
          /\ pc' = "catch"
          /\ UNCHANGED <<clients, hookCalls>>
       \/ LET client == ScopedClient(ctx, readonlyInput)
              d == Dispatch(ctx.event)
          IN  /\ clients' = Append(clients, client)
              /\ CASE d.kind = "call" ->
                        /\ hookCalls' = Append(hookCalls,
                               [hook |-> d.hook, client |-> client, args |-> d.args])
                        /\ pc' = "handler"
                        /\ UNCHANGED caught
                   [] d.kind = "throw" ->
                        /\ caught' = d.error
                        /\ pc' = "catch"
                        /\ UNCHANGED hookCalls
                   [] OTHER ->
                        /\ pc' = "m1"
                        /\ UNCHANGED <<caught, hookCalls>>
    /\ UNCHANGED <<environment, identity, inputsRead, username, whoAmI, userReads, log, reports,
                   exceptions, failed, samples, usage, result, escaped>>

\* the hook in progress
CurrentHook == hookCalls[Len(hookCalls)].hook

\* default hooks that resolve instead of throwing
HandlerReturns_DefaultResolves ==
    /\ pc = "handler"
    /\ pc' = "m1"
    /\ UNCHANGED <<environment, identity, inputsRead, username, whoAmI, userReads,
                   caught, clients, hookCalls, log, reports, exceptions, failed,
                   samples, usage, result, escaped>>

\* an overriding hook resolves
HandlerReturns ==
    /\ pc = "handler"
    /\ CurrentHook \in overrides
    /\ pc' = "m1"
    /\ UNCHANGED <<environment, identity, inputsRead, username, whoAmI, userReads, caught, clients,
                   hookCalls, log, reports, exceptions, failed, samples, usage,
                   result, escaped>>

\* the hook rejects: a default hook with Error('not implemented'), an
\* overriding one with anything
HandlerThrows ==
    /\ pc = "handler"
    /\ IF CurrentHook \in overrides
       THEN caught' \in ThrowValues
       ELSE caught' = Err("not implemented")
    /\ pc' = "catch"
    /\ UNCHANGED <<environment, identity, inputsRead, username, whoAmI, userReads, clients, hookCalls,
                   log, reports, exceptions, failed, samples, usage, result, escaped>>

\* the catch clause: await this.error(e), and on its failure log the raw error
Catch ==
    /\ pc = "catch"
    /\ \/ /\ MessageAccessThrows(caught)
          /\ log' = Append(log, <<FallbackText(caught)>>)
          /\ UNCHANGED <<username, whoAmI, userReads, reports, exceptions, failed>>
       \/ /\ ~MessageAccessThrows(caught)
          /\ AwaitUsername
          /\ \E delivered \in BOOLEAN, tracked \in BOOLEAN :
                LET r == error(caught, username, aiHandle, delivered, tracked)
                IN  /\ reports' = reports \o r.reports
                    /\ exceptions' = exceptions \o r.exceptions
                    /\ failed' = failed \o r.failed
                    /\ log' = IF r.threw
                              THEN Append(log, <<FallbackText(caught)>>)
                              ELSE log
    /\ pc' = "m1"
    /\ UNCHANGED <<environment, identity, inputsRead, caught, clients, hookCalls, samples, usage,
                   result, escaped>>

\* trackMetric({name, value}) called at position `at` of run(), which
\* continues at `next`: nothing without a sink; with one, the properties are
\* built (awaiting the username) and the sink is called, which may throw
TrackMetric(at, name, value, next) ==
    /\ pc = at
    /\ \/ /\ ~aiHandle
          /\ pc' = next
          /\ result' = IF next = "done" THEN "returned" ELSE result
          /\ UNCHANGED <<username, whoAmI, userReads, samples, escaped>>
       \/ /\ aiHandle
          /\ AwaitUsername
          /\ \/ /\ samples' = Append(samples,
                       [name |-> name, value |-> value,
                        properties |-> MetricProperties(ctx, username)])
                /\ pc' = next
                /\ result' = IF next = "done" THEN "returned" ELSE result
                /\ UNCHANGED escaped
             \/ /\ pc' = "done"
                /\ result' = "rejected"
                /\ escaped' = "aiHandle.trackMetric"
                /\ UNCHANGED samples
    /\ UNCHANGED <<environment, identity, inputsRead, caught, clients, hookCalls, log, reports,
                   exceptions, failed, usage>>

\* getNumRequests(): the requests the constructed clients have counted;
\* an opaque counter, here the number of clients constructed
getNumRequests == Len(clients)

TrackRequestCount == TrackMetric("m1", "octokit_request_count", getNumRequests, "rate")

\* await getRateLimit(this.token), which may reject
FetchRateLimit ==
    /\ pc = "rate"
    /\ \/ /\ usage' \in UsageSnapshots
          /\ pc' = "m2"
          /\ UNCHANGED <<result, escaped>>
       \/ /\ pc' = "done"
          /\ result' = "rejected"
          /\ escaped' = "getRateLimit"
          /\ UNCHANGED usage
    /\ UNCHANGED <<environment, identity, inputsRead, username, whoAmI, userReads, caught, clients,
                   hookCalls, log, reports, exceptions, failed, samples>>

\* a usage_core sample sent under the name of the next one
TrackUsageCore_WrongName == TrackMetric("m2", "usage_graphql", usage.core, "m3")

TrackUsageCore == TrackMetric("m2", "usage_core", usage.core, "m3")
TrackUsageGraphql == TrackMetric("m3", "usage_graphql", usage.graphql, "m4")
TrackUsageSearch == TrackMetric("m4", "usage_search", usage.search, "done")

Next ==
    \/ ResolveIdentity
    \/ Refuse
    \/ Proceed
    \/ ReadInputs
    \/ Route
    \/ HandlerReturns
    \/ HandlerThrows
    \/ Catch
    \/ TrackRequestCount
    \/ FetchRateLimit
    \/ TrackUsageCore
    \/ TrackUsageGraphql
    \/ TrackUsageSearch

Spec == Init /\ [][Next]_vars

----------------------------------------------------------------------------
(* Vocabulary of the properties *)

\* run() is past its try/catch statement
PastTryCatch == pc \in {"m1", "rate", "m2", "m3", "m4"} \/ (pc = "done" /\ result # "refused")

\* the event has a number and is routed to one of the nine issue hooks
RoutedEvent ==
    /\ ctx.event.number # 0
    /\ \/ ctx.event.eventName = "issue_comment"
       \/ ctx.event.eventName = "issues" /\ ctx.event.action \in RecognizedActions

\* the mapping from event to hook, as documented
MappedHook ==
    IF ctx.event.eventName = "issue_comment" THEN "onCommented"
    ELSE CASE ctx.event.action = "opened" -> "onOpened"
           [] ctx.event.action = "reopened" -> "onReopened"
           [] ctx.event.action = "closed" -> "onClosed"
           [] ctx.event.action = "labeled" -> "onLabeled"
           [] ctx.event.action = "assigned" -> "onAssigned"
           [] ctx.event.action = "unassigned" -> "onUnassigned"
           [] ctx.event.action = "edited" -> "onEdited"
           [] ctx.event.action = "milestoned" -> "onMilestoned"
           [] OTHER -> "none"

\* the arguments besides the client, as documented
MappedArgs ==
    IF ctx.event.eventName = "issue_comment" THEN <<ctx.event.comment, ctx.event.actor>>
    ELSE IF ctx.event.action = "labeled" THEN <<ctx.event.label>>
    ELSE IF ctx.event.action \in {"assigned", "unassigned"} THEN <<ctx.event.assignee>>
    ELSE <<>>

\* the one call the mapping prescribes for a routed event
MappedCall ==
    [hook |-> MappedHook,
     client |-> [kind |-> "OctoKitIssue", owner |-> ctx.owner, repo |-> ctx.repo,
                 number |-> ctx.event.number, readonly |-> readonlyInput],
     args |-> MappedArgs]

\* words occurs in line as a run of consecutive words
ContainsWords(line, words) ==
    \E i \in 1..(Len(line) - Len(words) + 1) :
        SubSeq(line, i, i + Len(words) - 1) = words

\* the raw text of an error: its stack, else its message, else its string form
RawText(e) ==
    IF e.stack \notin {Undefined, ""} THEN e.stack
    ELSE IF e.message \notin {Undefined, ""} THEN e.message
    ELSE e.str

----------------------------------------------------------------------------
(* C1 *)

\* C1 as stated: every run that is not refused and has an issue number, on an
\* issue_comment event or an issues event with one of the eight recognized
\* sub-actions, has invoked exactly one hook once it is past its try/catch:
\* the mapped one, with the issue's client and the event's arguments.
C1_EveryRoutedRunCallsItsHook ==
    (PastTryCatch /\ RoutedEvent) => hookCalls = <<MappedCall>>

\* C1 amended: on such an event no hook other than the mapped one is ever
\* invoked, never more than once and only with the event's arguments; and it
\* has been invoked exactly once as soon as run() is past its try/catch with
\* the issue-scoped client constructed (reading the inputs and constructing
\* the client did not throw).  When one of those throws, no hook is invoked.
C1_MappedHookExactlyOnce ==
    RoutedEvent =>
        /\ \A i \in 1..Len(hookCalls) : hookCalls[i] = MappedCall
        /\ Len(hookCalls) <= 1
        /\ (PastTryCatch /\ clients # <<>>) => hookCalls = <<MappedCall>>
        /\ (PastTryCatch /\ clients = <<>>) => hookCalls = <<>>

C1_Witness ==
    /\ pc = "done" /\ result = "returned"
    /\ ctx.event.action = "labeled" /\ ctx.event.number = 2
    /\ hookCalls = <<MappedCall>>
    /\ hookCalls[1].hook = "onLabeled" /\ hookCalls[1].args = <<"bug">>

----------------------------------------------------------------------------
(* C2 *)

MetricNames == <<"octokit_request_count", "usage_core", "usage_graphql", "usage_search">>

\* C2 as stated: every finished run that is not refused has emitted exactly
\* four samples, named octokit_request_count, usage_core, usage_graphql and
\* usage_search, all with the same properties (repo, issue, id, user).
C2_FourSamplesEveryRun ==
    (pc = "done" /\ result # "refused") =>
        /\ Len(samples) = 4
        /\ \A i \in 1..Len(samples) :
              /\ samples[i].name = MetricNames[i]
              /\ DOMAIN samples[i].properties = {"repo", "issue", "id", "user"}
              /\ samples[i].properties = samples[1].properties

----------------------------------------------------------------------------
(* C3 *)

\* C3 as stated: run() never rejects; whatever collaborator call fails, it
\* returns normally.
C3_NothingEscapesRun == result # "rejected"

----------------------------------------------------------------------------
(* C4 *)

\* the event's repo owner, repo name and issue number equal the configured
\* error-logging issue
OnErrorLoggingIssue ==
    /\ errorLoggingIssue # NoIssue
    /\ ctx.owner = errorLoggingIssue.owner
    /\ ctx.repo = errorLoggingIssue.repo
    /\ ctx.event.number = errorLoggingIssue.issue

----------------------------------------------------------------------------
(* C5 *)

\* C5 as stated: no call of trackMetric throws, so run() never rejects
\* because of the telemetry sink.
C5_TrackMetricNeverThrows == escaped # "aiHandle.trackMetric"

----------------------------------------------------------------------------
(* C6 *)

\* an 'issues' event with an issue number and a sub-action the switch lacks
UnrecognizedIssuesEvent ==
    /\ ctx.event.eventName = "issues"
    /\ ctx.event.number # 0
    /\ ctx.event.action \notin RecognizedActions

\* the error the default case raises
UnexpectedAction ==
    [kind |-> "Error",
     message |-> "Unexpected action: " \o ctx.event.action,
     stack |-> "Error: Unexpected action: " \o ctx.event.action \o "\n    at Action.run",
     str |-> "Error: Unexpected action: " \o ctx.event.action]

\* a report of the error e was rendered and submitted, once
ReportSubmittedFor(e) ==
    /\ Len(reports) = 1
    /\ reports[1].automated
    /\ reports[1].text.Message = e.message \o "\n" \o e.stack
    /\ reports[1].text.ID = id
    /\ reports[1].text.Actor = username

\* C6 as stated: every finished run on an 'issues' event with an issue number
\* and an unrecognized sub-action has invoked no hook, has caught an
\* 'Unexpected action' error and has submitted a report of it.
C6_EveryUnrecognizedRunReports ==
    (pc = "done" /\ UnrecognizedIssuesEvent) =>
        /\ hookCalls = <<>>
        /\ caught = UnexpectedAction
        /\ ReportSubmittedFor(UnexpectedAction)

\* C6 amended: on such an event no hook is ever invoked; and when the run is
\* not refused and the issue-scoped client was constructed (reading the
\* inputs and constructing the client did not throw), the error caught is
\* 'Unexpected action: <sub-action>', and once run() is past its try/catch
\* exactly one report, of that error, has been rendered and submitted.
C6_UnexpectedActionReported ==
    UnrecognizedIssuesEvent =>
        /\ hookCalls = <<>>
        /\ (pc \in {"handler", "catch"} \/ PastTryCatch) /\ clients # <<>>
              => caught = UnexpectedAction
        /\ PastTryCatch /\ clients # <<>> => ReportSubmittedFor(UnexpectedAction)

C6_Witness ==
    /\ UnrecognizedIssuesEvent /\ ctx.event.action = "pinned"
    /\ pc = "done" /\ result = "returned"
    /\ caught = UnexpectedAction
    /\ ReportSubmittedFor(UnexpectedAction) /\ reports[1].delivered

----------------------------------------------------------------------------
(* C7 *)

\* the one call a run without issue number makes
TriggeredCall ==
    [hook |-> "onTriggered",
     client |-> [kind |-> "OctoKit", owner |-> ctx.owner, repo |-> ctx.repo,
                 number |-> 0, readonly |-> readonlyInput],
     args |-> <<>>]

NoIssueScopedClient == \A i \in 1..Len(clients) : clients[i].kind # "OctoKitIssue"

NoIssueHook == \A i \in 1..Len(hookCalls) : hookCalls[i].hook \notin IssueHooks

\* C7 as stated: every run that is not refused and whose event has no issue
\* number has invoked onTriggered exactly once, with a repository-scoped
\* client, and nothing else, once it is past its try/catch.
C7_EveryNumberlessRunTriggers ==
    (PastTryCatch /\ ctx.event.number = 0) =>
        /\ hookCalls = <<TriggeredCall>>
        /\ NoIssueScopedClient

\* C7 amended: when the event has no issue number, whatever its kind, no
\* issue-scoped client is ever constructed and none of the nine issue hooks
\* is ever invoked; onTriggered is invoked at most once, and exactly once,
\* with the repository-scoped client, as soon as run() is past its try/catch
\* with that client constructed (reading the inputs and constructing the
\* client did not throw).
C7_TriggeredWithRepoClient ==
    ctx.event.number = 0 =>
        /\ NoIssueScopedClient
        /\ NoIssueHook
        /\ Len(hookCalls) <= 1
        /\ \A i \in 1..Len(hookCalls) : hookCalls[i] = TriggeredCall
        /\ (PastTryCatch /\ clients # <<>>) =>
              hookCalls = <<TriggeredCall>> /\ clients = <<TriggeredCall.client>>

C7_Witness ==
    /\ ctx.event.number = 0 /\ ctx.event.eventName = "schedule"
    /\ pc = "done" /\ result = "returned"
    /\ hookCalls = <<TriggeredCall>>
    /\ clients = <<TriggeredCall.client>>

----------------------------------------------------------------------------
(* C8 *)

\* the report of the caught error was submitted and its delivery failed
DeliveryFailed == Len(reports) = 1 /\ ~reports[1].delivered

\* C8: once the delivery of the report has failed, the raw text of the error
\* caught (its stack, else its message, else its string form) is the one line
\* on the log, no failure signal was raised, run() has gone on to the metrics
\* (it is at one of their steps, or ended there), and nothing but a metrics
\* call has made it reject.
C8_FallbackLogOnFailedDelivery ==
    DeliveryFailed =>
        /\ caught # NoError
        /\ log = << <<RawText(caught)>> >>
        /\ failed = <<>>
        /\ PastTryCatch
        /\ escaped \in {"none", "aiHandle.trackMetric", "getRateLimit"}
        /\ (escaped # "none") <=> (result = "rejected")
        /\ pc = "done" /\ result = "returned" /\ aiHandle => Len(samples) = 4

C8_Witness ==
    /\ DeliveryFailed
    /\ caught.kind = "object"
    /\ log = << <<"boom">> >>
    /\ pc = "done" /\ result = "returned" /\ Len(samples) = 4

----------------------------------------------------------------------------
(* C9 *)

\* C9 as stated: once an error was caught and handled, a report of it was
\* delivered to the tracking issue and setFailed was called with its message,
\* also when a step of the reporting path has failed.
C9_EveryCaughtErrorReportedAndSignalled ==
    (PastTryCatch /\ caught # NoError) =>
        /\ Len(reports) = 1 /\ reports[1].delivered
        /\ failed = <<caught.message>>

\* every step of error() succeeded: the report was delivered and, with a
\* telemetry sink, the exception was tracked
ReportingSucceeded ==
    /\ Len(reports) = 1 /\ reports[1].delivered
    /\ aiHandle => exceptions = <<caught>>

\* C9 amended: once an error other than null was caught and handled, exactly
\* one report of it has been rendered and submitted to the error-reporting
\* channel; setFailed was called, once and with the error's message, exactly
\* when the delivery succeeded and (with a telemetry sink) the exception was
\* tracked; when a step of the reporting path failed, or the value caught is
\* null, setFailed was not called and the raw error is on the log instead.
\* Without a caught error nothing is submitted or signalled.
C9_ReportSubmittedSignalOnSuccess ==
    /\ (PastTryCatch /\ caught # NoError) =>
          /\ caught.kind # "null" =>
                /\ Len(reports) = 1
                /\ reports[1].automated
                /\ reports[1].text.Message =
                      TemplateStr(caught.message) \o "\n" \o TemplateStr(caught.stack)
                /\ reports[1].text.Actor = username
                /\ reports[1].text.ID = id
          /\ caught.kind = "null" => reports = <<>>
          /\ IF ReportingSucceeded
             THEN failed = <<caught.message>> /\ log = <<>>
             ELSE failed = <<>> /\ log = << <<RawText(caught)>> >>
    /\ caught = NoError => reports = <<>> /\ failed = <<>>

C9_Witness ==
    /\ pc = "done" /\ result = "returned"
    /\ caught.message = "not implemented"
    /\ ReportingSucceeded /\ aiHandle
    /\ failed = <<"not implemented">>

----------------------------------------------------------------------------
(* C10 *)

\* C10: the "who am I" request is issued exactly once, by the constructor,
\* however often the username is awaited (at most five times in a run: once
\* by error() and four times by trackMetric), and every await yields the
\* same value, the one the promise settled to.
C10_IdentityResolvedOnce ==
    /\ whoAmI = 1
    /\ Len(userReads) <= 5
    /\ \A i \in 1..Len(userReads) : userReads[i] = userReads[1] /\ userReads[i] = username
    /\ username \in {Pending, DisplayName, "unknown"}

C10_Witness ==
    /\ Len(userReads) = 5
    /\ whoAmI = 1
    /\ pc = "done"
    /\ userReads[1] = "unknown"

----------------------------------------------------------------------------
(* C11 *)

\* C11: when the "who am I" request fails, this.username settles to the
\* literal 'unknown': every await of it yields 'unknown' instead of raising,
\* so the user of every metric sample and the Actor of every report is
\* 'unknown', and run() rejects, if at all, only through a metrics call.
C11_FailedIdentityIsUnknown ==
    identity = "rejected" =>
        /\ username = "unknown"
        /\ \A i \in 1..Len(userReads) : userReads[i] = "unknown"
        /\ \A i \in 1..Len(samples) : samples[i].properties.user = "unknown"
        /\ \A i \in 1..Len(reports) : reports[i].text.Actor = "unknown"
        /\ escaped \in {"none", "aiHandle.trackMetric", "getRateLimit"}

C11_Witness ==
    /\ identity = "rejected"
    /\ pc = "done" /\ result = "returned"
    /\ Len(samples) = 4 /\ samples[4].properties.user = "unknown"
    /\ Len(reports) = 1 /\ reports[1].text.Actor = "unknown"

----------------------------------------------------------------------------
(* C12 *)

\* getRequiredInput threw inside run()
InputsFailed == caught = Err("Input required and not supplied: token")

\* the constructor of the scoped client threw
ConstructionFailed == caught = Err("client construction failed")

\* the kind of client the event calls for
ExpectedClientKind == IF ctx.event.number # 0 THEN "OctoKitIssue" ELSE "OctoKit"

\* C12 as stated: never more than one client; none in a refused run; and in
\* every other run, once it is past its try/catch, exactly one: issue-scoped
\* when the event has an issue number, repository-scoped when it has none.
C12_OneClientOnEveryPath ==
    /\ Len(clients) <= 1
    /\ result = "refused" => clients = <<>>
    /\ PastTryCatch => Len(clients) = 1 /\ clients[1].kind = ExpectedClientKind

\* C12 amended: never more than one client is constructed; one that is
\* constructed is issue-scoped, for the event's issue, exactly when the event
\* has an issue number, and repository-scoped exactly when it has none; none
\* is constructed in a refused run, nor when reading the inputs or the
\* constructor throws; in every other run exactly one has been constructed
\* once run() is past its try/catch.
C12_AtMostOneClientOfTheRightKind ==
    /\ Len(clients) <= 1
    /\ \A i \in 1..Len(clients) :
          /\ clients[i].kind = ExpectedClientKind
          /\ clients[i].number = ctx.event.number
          /\ clients[i].owner = ctx.owner /\ clients[i].repo = ctx.repo
    /\ result = "refused" => clients = <<>>
    /\ (InputsFailed \/ ConstructionFailed) => clients = <<>>
    /\ (PastTryCatch /\ ~InputsFailed /\ ~ConstructionFailed) => Len(clients) = 1

C12_Witness ==
    /\ pc = "done" /\ result = "returned"
    /\ ctx.event.eventName = "pull_request"
    /\ Len(clients) = 1 /\ clients[1].kind = "OctoKitIssue" /\ clients[1].number = 2

----------------------------------------------------------------------------
(* C13 *)

CompletedNormally == result = "returned" /\ caught = NoError
CompletedAfterCaughtError == result = "returned" /\ caught # NoError
RefusedRun == result = "refused" /\ caught = NoError

\* C13 as stated: a run that has ended is in exactly one of three terminal
\* states: completed normally, completed after a caught error, or refused.
C13_ThreeTerminalStates ==
    pc = "done" =>
        /\ CompletedNormally \/ CompletedAfterCaughtError \/ RefusedRun
        /\ ~(CompletedNormally /\ RefusedRun)
        /\ ~(CompletedAfterCaughtError /\ RefusedRun)

----------------------------------------------------------------------------
(* C14 *)

NotImplemented ==
    [kind |-> "Error", message |-> "not implemented",
     stack |-> "Error: not implemented\n    at Action.run",
     str |-> "Error: not implemented"]

\* C14: with a bot that overrides no hook, a run that has invoked a hook is
\* either still inside it or has caught Error('not implemented'), and then
\* is in the catch clause or past it, at the metrics; once past it, exactly
\* one report, of that error, has been submitted.  The hook never resolves.
C14_DefaultHookNotImplemented ==
    (overrides = {} /\ hookCalls # <<>>) =>
        \/ pc = "handler" /\ caught = NoError
        \/ /\ caught = NotImplemented
           /\ pc = "catch" \/ PastTryCatch
           /\ PastTryCatch => ReportSubmittedFor(NotImplemented)

C14_Witness ==
    /\ overrides = {} /\ hookCalls # <<>> /\ hookCalls[1].hook = "onCommented"
    /\ pc = "done" /\ result = "returned"
    /\ caught = NotImplemented
    /\ ReportSubmittedFor(NotImplemented)
    /\ aiHandle /\ Len(samples) = 4

----------------------------------------------------------------------------
(* C15 *)

\* the event has an issue number and is neither 'issue_comment' nor 'issues'
OtherNumberedEvent ==
    /\ ctx.event.number # 0
    /\ ctx.event.eventName \notin {"issue_comment", "issues"}

\* the issue-scoped client of the event
IssueClient ==
    [kind |-> "OctoKitIssue", owner |-> ctx.owner, repo |-> ctx.repo,
     number |-> ctx.event.number, readonly |-> readonlyInput]

\* C15 as stated: on such an event every run that is not refused, once past
\* its try/catch, has constructed the issue-scoped client, invoked no hook,
\* caught no error and submitted no report.
C15_EveryOtherEventFallsThrough ==
    (PastTryCatch /\ OtherNumberedEvent) =>
        /\ clients = <<IssueClient>>
        /\ hookCalls = <<>>
        /\ caught = NoError
        /\ reports = <<>>

\* C15 amended: on such an event no hook is ever invoked; and when reading
\* the inputs and constructing the issue-scoped client do not throw, the run
\* goes from the construction straight to the metrics: no error is caught,
\* no report submitted, no failure signal raised and nothing logged.  The
\* only errors such a run can catch are those of reading the inputs and of
\* the constructor.
C15_OtherEventFallsThrough ==
    OtherNumberedEvent =>
        /\ hookCalls = <<>>
        /\ pc # "handler"
        /\ clients # <<>> =>
              /\ clients = <<IssueClient>>
              /\ PastTryCatch
              /\ caught = NoError
              /\ reports = <<>> /\ failed = <<>> /\ log = <<>> /\ exceptions = <<>>
        /\ caught # NoError => InputsFailed \/ ConstructionFailed

C15_Witness ==
    /\ OtherNumberedEvent /\ ctx.event.eventName = "pull_request"
    /\ pc = "done" /\ result = "returned"
    /\ clients = <<IssueClient>> /\ hookCalls = <<>> /\ reports = <<>>
    /\ aiHandle /\ Len(samples) = 4

----------------------------------------------------------------------------
(* C16 *)

\* the steps of run() in the order of its text
Rank(p) ==
    CASE p = "start" -> 0 [] p = "config" -> 1 [] p = "route" -> 2
      [] p = "handler" -> 3 [] p = "catch" -> 4 [] p = "m1" -> 5
      [] p = "rate" -> 6 [] p = "m2" -> 7 [] p = "m3" -> 8 [] p = "m4" -> 9
      [] p = "done" -> 10

AtMetrics == pc \in {"m1", "rate", "m2", "m3", "m4"}

\* one step of run() respects the order of the claim
OrderedStep ==
    \* run() only moves forward
    /\ pc' # pc => Rank(pc') > Rank(pc)
    \* the self-protection test precedes reading the inputs, which precedes
    \* the construction of the client
    /\ inputsRead' # inputsRead =>
          pc = "config" /\ ~IsErrorLoggingIssue(ctx, errorLoggingIssue)
    /\ clients' # clients => pc = "route" /\ inputsRead
    \* the client is constructed before the hook is called with it
    /\ hookCalls' # hookCalls =>
          /\ clients' # <<>>
          /\ hookCalls'[Len(hookCalls')].client = clients'[Len(clients')]
          /\ pc' = "handler"
    \* reporting follows the handler: it happens in the catch clause only
    /\ (reports' # reports \/ failed' # failed \/ exceptions' # exceptions) =>
          pc = "catch"
    /\ log' # log => pc = "catch" \/ (pc = "start" /\ result' = "refused")
    \* samples are emitted, and the usage fetched, at the metrics steps only
    /\ (samples' # samples \/ usage' # usage) => AtMetrics
    \* and once there, nothing but metrics happens until run() ends
    /\ AtMetrics =>
          /\ UNCHANGED <<caught, clients, hookCalls, log, reports, exceptions,
                         failed, inputsRead>>
          /\ pc' = pc \/ pc' \in {"rate", "m2", "m3", "m4", "done"}

\* C16: every step of every run respects the order: self-protection test,
\* reading the inputs, construction of the client, handler, failure
\* reporting, metrics; no sample is emitted before the handler and the
\* reporting have finished, and the metrics are the last thing run() does.
C16_StepsInOrder ==
    /\ [][OrderedStep]_vars
    /\ [](samples # <<>> => PastTryCatch)
    /\ [](pc \in {"start", "config", "route", "handler", "catch"} =>
              samples = <<>> /\ usage = NoUsage)
    /\ [](pc = "handler" => reports = <<>> /\ failed = <<>> /\ log = <<>>)

C16_Witness ==
    /\ pc = "done" /\ result = "returned"
    /\ inputsRead /\ Len(clients) = 1 /\ Len(hookCalls) = 1
    /\ caught # NoError /\ Len(reports) = 1
    /\ Len(samples) = 4

----------------------------------------------------------------------------
(* C17 *)

\* C17: a throw of getRequiredInput or of the client's constructor inside
\* run() never escapes: it is caught by the outer handler, so run() is in the
\* catch clause or past it; no client exists and no hook is invoked; once
\* past the catch, one report of that error was submitted and either it was
\* delivered or the raw error is on the log; and the run is at the metrics
\* (without a sink to fail, and with the rate limit fetched, it returns).
C17_SetupFailureIsCaught ==
    /\ escaped \notin {"getRequiredInput", "constructor"}
    /\ (pc = "done" /\ result # "refused") => inputsRead /\ (caught # NoError \/ clients # <<>>)
    /\ (InputsFailed \/ ConstructionFailed) =>
          /\ inputsRead
          /\ hookCalls = <<>> /\ clients = <<>>
          /\ pc = "catch" \/ PastTryCatch
          /\ PastTryCatch =>
                /\ ReportSubmittedFor(caught)
                /\ reports[1].delivered \/ log = << <<RawText(caught)>> >>
                /\ failed = <<>> => log = << <<RawText(caught)>> >>
          /\ pc = "done" => result = "returned" \/ escaped \in {"aiHandle.trackMetric", "getRateLimit"}

C17_Witness ==
    /\ InputsFailed
    /\ pc = "done" /\ result = "returned"
    /\ hookCalls = <<>>
    /\ ReportSubmittedFor(caught) /\ ~reports[1].delivered
    /\ aiHandle /\ Len(samples) = 4

----------------------------------------------------------------------------
(* C18 *)

\* the calls of setFailed and the fallback lines written, counted together
SignalsAndFallbacks == Len(failed) + Len(log)

\* C18: once the outer handler has caught and handled an error, exactly one
\* of two things has happened, once: setFailed was called with the error's
\* message, which is the case exactly when every step of error() succeeded,
\* or the raw error was written to the log, which is the case when error()
\* threw (the delivery or the exception tracking failed, or the value caught
\* is null).  In a run that catches nothing and is not refused, neither
\* happens.
C18_SignalXorFallback ==
    /\ (PastTryCatch /\ caught # NoError) =>
          /\ SignalsAndFallbacks = 1
          /\ failed # <<>> => failed[1] = caught.message /\ ReportingSucceeded
          /\ log # <<>> => log[1] = <<RawText(caught)>> /\ ~ReportingSucceeded
    /\ (caught = NoError /\ result # "refused") => SignalsAndFallbacks = 0
    /\ pc \in {"start", "config", "route", "handler", "catch"} => SignalsAndFallbacks = 0

C18_Witness ==
    /\ pc = "done" /\ result = "returned"
    /\ caught.kind = "Error" /\ aiHandle
    /\ Len(reports) = 1 /\ reports[1].delivered /\ exceptions = <<>>
    /\ failed = <<>> /\ Len(log) = 1

----------------------------------------------------------------------------
(* C19 *)

\* C19: a refused run has written its one line to the log and done nothing
\* else: it has read no input, constructed no client, invoked no hook, never
\* awaited the username, fetched no rate-limit usage, and made no call to
\* logErrorToIssue, to the telemetry sink or to setFailed; nothing was caught
\* and nothing escaped.
C19_RefusalTouchesOnlyTheLog ==
    result = "refused" =>
        /\ log = <<RefusalMessage>>
        /\ ~inputsRead
        /\ clients = <<>> /\ hookCalls = <<>>
        /\ userReads = <<>> /\ whoAmI = 1
        /\ usage = NoUsage
        /\ reports = <<>> /\ exceptions = <<>> /\ samples = <<>> /\ failed = <<>>
        /\ caught = NoError /\ escaped = "none"
        /\ pc = "done"

C19_Witness ==
    /\ result = "refused"
    /\ identity = "pending"
    /\ ctx.event.eventName = "issue_comment"
    /\ log = <<RefusalMessage>>

----------------------------------------------------------------------------
(* C20 *)

\* the names of the samples emitted so far, in order
SampleNames == [i \in 1..Len(samples) |-> samples[i].name]

\* s is an initial part of t
IsPrefix(s, t) == Len(s) <= Len(t) /\ \A i \in 1..Len(s) : s[i] = t[i]

\* C20 as stated: the names of the samples emitted form a prefix of
\* octokit_request_count, usage_core, usage_graphql, usage_search; and when
\* getRateLimit has failed, exactly the request-count sample was emitted.
C20_RequestCountEmittedWhenFetchFails ==
    /\ IsPrefix(SampleNames, MetricNames)
    /\ escaped = "getRateLimit" => SampleNames = <<"octokit_request_count">>

\* C20 amended: the names of the samples emitted always form a prefix of
\* octokit_request_count, usage_core, usage_graphql, usage_search (so each
\* is emitted at most once, in that order); nothing but the request-count
\* sample is emitted before the rate-limit usage is fetched, and each usage
\* sample carries the fetched value of its bucket; when getRateLimit fails,
\* exactly the request-count sample has been emitted if a telemetry sink is
\* configured, and no sample at all if none is.
C20_SamplesFormAPrefix ==
    /\ IsPrefix(SampleNames, MetricNames)
    /\ usage = NoUsage => Len(samples) <= 1
    /\ (usage # NoUsage /\ aiHandle) => Len(samples) >= 1
    /\ ~aiHandle => samples = <<>>
    /\ escaped = "getRateLimit" =>
          SampleNames = IF aiHandle THEN <<"octokit_request_count">> ELSE <<>>
    /\ Len(samples) >= 1 => samples[1].value = Len(clients)
    /\ Len(samples) >= 2 => samples[2].value = usage.core
    /\ Len(samples) >= 3 => samples[3].value = usage.graphql
    /\ Len(samples) >= 4 => samples[4].value = usage.search

C20_Witness ==
    /\ escaped = "getRateLimit" /\ pc = "done"
    /\ aiHandle
    /\ SampleNames = <<"octokit_request_count">>

====
